---- MODULE Spec2Model ----
(***************************************************************************)
(* Fractal Monte Carlo search (fractal_zero/fmc.py): the walker population *)
(* of one FMC object, the four steps of every simulation iteration, the    *)
(* action selection, and the two pure helpers (_relativize_vector and      *)
(* FMC._clone_vector).                                                      *)
(*                                                                         *)
(* Walkers are numbered 1..num_walkers (walker i of the code is i+1) and   *)
(* iteration t of the code is column t+1 of reward_buffer.                 *)
(* Float tensors are fixed-point integers in units of 1/FP; value sums are *)
(* exact integers in units of 1/gamma_den^k.                               *)
(***************************************************************************)
EXTENDS Integers, Sequences, FiniteSets, TLC

VARIABLES
    config,               \* FractalZeroConfig, its collaborators, and the k's the caller passes
    pc,                   \* position of the caller / of simulate's body
    k,                    \* self.k
    greedy_action,        \* argument of simulate
    simulation_iteration, \* self.simulation_iteration
    state,                \* dynamics_model.state, shape (N, d)
    actions,              \* self.actions
    root_actions,         \* self.root_actions (<<>> is None)
    rewards,              \* self.rewards
    predicted_values,     \* self.predicted_values
    reward_buffer,        \* self.reward_buffer, shape (N, k)
    value_sum_buffer,     \* self.value_sum_buffer
    visit_buffer,         \* self.visit_buffer
    clone_receives,       \* self.clone_receives
    clone_partners,       \* self.clone_partners
    distances,            \* self.distances
    virtual_rewards,      \* self.virtual_rewards
    clone_probabilities,  \* self.clone_probabilities
    clone_mask,           \* self.clone_mask
    root_value_sum,       \* self.root_value_sum
    root_visits,          \* self.root_visits
    result,               \* <<the action simulate returned>>, <<>> before it returns
    steps,                \* history: the steps the current call executed
    sampled0,             \* history: the actions the sampler drew at iteration 0
    runs,                 \* number of searches this object ran (main.py builds one FMC per search)
    call,                 \* the call of a pure helper under test
    out                   \* what that call returned

vars == <<config, pc, k, greedy_action, simulation_iteration, state, actions,
          root_actions, rewards, predicted_values, reward_buffer,
          value_sum_buffer, visit_buffer, clone_receives, clone_partners,
          distances, virtual_rewards, clone_probabilities, clone_mask,
          root_value_sum, root_visits, result, steps, sampled0, runs,
          call, out>>

\* ------------------------------------------------------------------ bounds
MaxWalkers == 3
MaxK == 3
MaxEmbedding == 2
MaxCells == 4
MaxLen == 4
MaxEntry == 2
MaxVector == 3
MaxCloneEntry == 1

\* --------------------------------------------------------- float arithmetic
\* Resolution of the fixed-point numbers that stand for float tensors.
FP == 1000
\* float('nan'): every comparison with it is false, every arithmetic result NaN.
NaN == -999999999

\* Newton's iteration from above: the least x with x * x <= n < (x + 1) * (x + 1)
RECURSIVE isqrt_from(_, _)
isqrt_from(n, x) ==
    LET y == (x + n \div x) \div 2
    IN  IF y >= x THEN x ELSE isqrt_from(n, y)

\* floor(sqrt(n)), for 0 <= n < 2^31
isqrt(n) ==
    IF n = 0 THEN 0
    ELSE isqrt_from(n, IF n < 10000 THEN 100
                       ELSE IF n < 4000000 THEN 2000 ELSE 46341)

\* the tensor with entries f[1], ..., f[n], every entry computed once
RECURSIVE tensor(_, _)
tensor(f, n) == IF n = 0 THEN <<>> ELSE Append(tensor(f, n - 1), f[n])

RECURSIVE sum_upto(_, _)
sum_upto(s, n) == IF n = 0 THEN 0 ELSE s[n] + sum_upto(s, n - 1)

\* tensor.sum()
seq_sum(s) == sum_upto(s, Len(s))

\* torch.exp(z) for z <= 0 (fixed point): 1 / (1 + x + x^2/2! + ...), x = -z
RECURSIVE exp_series(_, _, _, _)
exp_series(x, term, n, acc) ==
    IF term = 0 THEN acc
    ELSE LET next == (term * x) \div (n * FP)
         IN  exp_series(x, next, n + 1, acc + next)

torch_exp(z) == (FP * FP) \div exp_series(0 - z, FP, 1, FP)

\* torch.log(1 + z) for z > 0 (fixed point): 2 * atanh(z / (2 + z))
RECURSIVE atanh_series(_, _, _, _)
atanh_series(y2, power, n, acc) ==
    IF power = 0 THEN acc
    ELSE atanh_series(y2, (power * y2) \div FP, n + 2, acc + power \div n)

torch_log1p(z) ==
    LET y == (z * FP) \div (2 * FP + z)
    IN  2 * atanh_series((y * y) \div FP, y, 1, 0)

\* vector.mean()
tensor_mean(vector) == seq_sum(vector) \div Len(vector)

\* vector.std(): the unbiased estimator, NaN on one element (0/0)
tensor_std(vector) ==
    LET n == Len(vector)
        total == seq_sum(vector)
        q == seq_sum(tensor([i \in 1..n |->
                                (n * vector[i] - total) * (n * vector[i] - total)], n))
    IN  IF n = 1 THEN NaN ELSE isqrt(q \div (n - 1)) \div n

\* ------------------------------------------------------ _relativize_vector
\* line 19, one entry: (vector - vector.mean()) / std
standardize(x, mean, std) == IF std = NaN THEN NaN ELSE ((x - mean) * FP) \div std

\* line 20, one entry: standard[standard > 0] = torch.log(1 + standard[standard > 0]) + 1
shape_positive(z) == IF z # NaN /\ z > 0 THEN torch_log1p(z) + FP ELSE z

\* line 21, one entry: standard[standard <= 0] = torch.exp(standard[standard <= 0])
shape_non_positive(z) == IF z # NaN /\ z <= 0 THEN torch_exp(z) ELSE z

\* lines 17-22 with std and mean computed
relativize_with(vector, mean, std) ==
    IF std # NaN /\ std = 0 THEN tensor([i \in 1..Len(vector) |-> FP], Len(vector))
    ELSE tensor([i \in 1..Len(vector) |->
                    shape_non_positive(shape_positive(standardize(vector[i], mean, std)))],
                Len(vector))

relativize_vector(vector) ==
    relativize_with(vector, tensor_mean(vector), tensor_std(vector))

\* ------------------------------------------------------- FMC._clone_vector
\* A mutant: an in-place loop over the walkers, which reads entries that the
\* same cloning has already overwritten.
RECURSIVE clone_in_place(_, _, _, _)
clone_in_place(vector, partners, mask, i) ==
    IF i > Len(vector) THEN vector
    ELSE clone_in_place(
             IF mask[i] THEN [vector EXCEPT ![i] = vector[partners[i]]] ELSE vector,
             partners, mask, i + 1)

clone_vector_sequential(vector, partners, mask) ==
    clone_in_place(vector, partners, mask, 1)

\* A mutant: the gathered rows replace the vector, vector = vector[partners[mask]].
clone_vector_masked_rows(vector, partners, mask) ==
    LET masked == {i \in 1..Len(vector) : mask[i]}
        nth(n) == CHOOSE i \in masked : Cardinality({j \in masked : j <= i}) = n
    IN  tensor([n \in 1..Cardinality(masked) |-> vector[partners[nth(n)]]],
               Cardinality(masked))

\* vector[self.clone_mask] = vector[self.clone_partners[self.clone_mask]]:
\* the right-hand side is gathered into a new tensor before the scatter.
clone_vector(vector, partners, mask) ==
    LET gathered == tensor([i \in 1..Len(vector) |-> vector[partners[i]]], Len(vector))
    IN  tensor([i \in 1..Len(vector) |-> IF mask[i] THEN gathered[i] ELSE vector[i]],
               Len(vector))

\* ------------------------------------------------- external collaborators
\* The learned models and the action space are not part of fmc.py; these are two
\* hand-coded deterministic oracles that preserve the batch shape (N in, N out).
\*   "mix":   the next state and the reward depend on the walker's state and action
\*   "table": the reward of walker i at step s is reward_table[i][s]; all walkers
\*            share one state, whose first coordinate counts the steps
StateMod == 3

reward_table == << <<1, 2, 3>>, <<0, 0, 5>>, <<2, 0, 1>>, <<4, 1, 0>> >>

table_reward(i, step) ==
    IF i <= Len(reward_table) /\ step + 1 \in 1..Len(reward_table[i])
    THEN reward_table[i][step + 1] ELSE 0

\* dynamics_model.forward(actions): replaces dynamics_model.state, returns rewards
dynamics_forward(cfg, st, acts) ==
    IF cfg.oracle = "table"
    THEN [state |-> [i \in 1..Len(st) |->
                        [j \in 1..Len(st[i]) |-> IF j = 1 THEN st[i][j] + 1 ELSE st[i][j]]],
          rewards |-> [i \in 1..Len(st) |-> table_reward(i, st[i][1])]]
    ELSE [state |-> [i \in 1..Len(st) |->
                        [j \in 1..Len(st[i]) |-> (st[i][j] + acts[i] * j) % StateMod]],
          rewards |-> [i \in 1..Len(st) |-> acts[i] + st[i][1]]]

\* prediction_model.forward(state): the value head, one float per walker
prediction_forward(cfg, st) ==
    IF cfg.oracle = "table"
    THEN [i \in 1..Len(st) |-> 0]
    ELSE [i \in 1..Len(st) |-> FP * seq_sum(st[i])]

\* ---------------------------------------------------------- configuration
Walkers(cfg) == 1..cfg.num_walkers

Configs ==
    {[num_walkers |-> n, embedding_size |-> d, gamma_num |-> 1, gamma_den |-> 2,
      balance |-> 1, action_space |-> {0, 1}, uniform |-> {0, FP \div 2},
      oracle |-> o, initial_states |-> {[j \in 1..d |-> 0]},
      ks |-> {kk \in -1..MaxK : n * kk <= MaxCells}] :
        n \in 1..MaxWalkers, d \in 1..MaxEmbedding, o \in {"mix", "table"}}

\* The scenario of the backpropagation arithmetic: 4 walkers, k = 3, gamma = 0.9,
\* rewards from reward_table, a threshold draw that no clone probability reaches.
ScenarioConfig ==
    [num_walkers |-> Len(reward_table), embedding_size |-> 1, gamma_num |-> 9,
     gamma_den |-> 10, balance |-> 1, action_space |-> {0}, uniform |-> {FP \div 2},
     oracle |-> "table", initial_states |-> {<<0>>}, ks |-> {Len(reward_table[1])}]

\* A longer run of a small population: 2 walkers, k = 3, so that an iteration that
\* is neither the first nor the last has a clone mask that splits the walkers.
LongRunConfig ==
    [num_walkers |-> 2, embedding_size |-> 1, gamma_num |-> 1, gamma_den |-> 2,
     balance |-> 1, action_space |-> {0, 1}, uniform |-> {0, FP \div 2},
     oracle |-> "mix", initial_states |-> {<<0>>}, ks |-> {3}]

\* value sums are kept in units of 1 / gamma_den^k, which makes them exact
value_scale(cfg, kk) == cfg.gamma_den ^ kk

\* ----------------------------------------------------------------- set_state
set_state ==
    /\ pc = "new"
    /\ \E s0 \in config.initial_states :
          state' = [i \in Walkers(config) |-> s0]
    /\ pc' = "ready"
    /\ UNCHANGED <<config, k, greedy_action, simulation_iteration, actions,
                   root_actions, rewards, predicted_values, reward_buffer,
                   value_sum_buffer, visit_buffer, clone_receives, clone_partners,
                   distances, virtual_rewards, clone_probabilities, clone_mask,
                   root_value_sum, root_visits, result, steps, sampled0, runs,
                   call, out>>

\* ------------------------------------------------------------------ simulate
\* The order of the loop body, lines 115-118.
loop_body_clone_first ==
    <<"perturbate", "prepare_clone_variables", "execute_cloning",
      "backpropagate_reward_buffer">>

loop_body ==
    <<"perturbate", "prepare_clone_variables", "backpropagate_reward_buffer",
      "execute_cloning">>

\* where control goes after a step of the body: for ... in range(self.k)
next_pc(step, t, kk) ==
    LET idx == CHOOSE n \in 1..Len(loop_body) : loop_body[n] = step
    IN  IF idx < Len(loop_body) THEN loop_body[idx + 1]
        ELSE IF t + 1 < kk THEN loop_body[1] ELSE "return"

next_iteration(step, t, kk) ==
    IF next_pc(step, t, kk) = loop_body[1] THEN t + 1 ELSE t

\* A mutant: the buffers are created before the precondition is checked.
simulate_assert_late ==
    /\ pc \in {"ready", "done", "failed"}
    /\ \E kk \in config.ks, greedy \in BOOLEAN :
          /\ kk > 0 => runs = 0
          /\ k' = kk
          /\ reward_buffer' = [i \in Walkers(config) |-> [t \in 1..kk |-> 0]]
          /\ value_sum_buffer' = [i \in Walkers(config) |-> 0]
          /\ visit_buffer' = [i \in Walkers(config) |-> 0]
          /\ clone_receives' = [i \in Walkers(config) |-> 0]
          /\ root_actions' = <<>>
          /\ root_value_sum' = 0
          /\ root_visits' = 0
          /\ steps' = <<>>
          /\ IF kk > 0
             THEN /\ greedy_action' = greedy
                  /\ simulation_iteration' = 0
                  /\ pc' = loop_body[1]
                  /\ runs' = runs + 1
                  /\ result' = <<>>
                  /\ sampled0' = <<>>
             ELSE /\ pc' = "failed"
                  /\ UNCHANGED <<greedy_action, simulation_iteration, runs, result,
                                 sampled0>>
    /\ UNCHANGED <<config, state, actions, rewards, predicted_values,
                   clone_partners, distances, virtual_rewards,
                   clone_probabilities, clone_mask, call, out>>

\* simulate(k, greedy_action), lines 88-112: the assert, then the run's buffers
simulate ==
    /\ pc \in {"ready", "done", "failed"}
    /\ \E kk \in config.ks, greedy \in BOOLEAN :
          /\ kk > 0 => runs = 0
          /\ k' = kk
          /\ steps' = <<>>
          /\ IF kk > 0
             THEN /\ greedy_action' = greedy
                  /\ reward_buffer' = [i \in Walkers(config) |-> [t \in 1..kk |-> 0]]
                  /\ value_sum_buffer' = [i \in Walkers(config) |-> 0]
                  /\ visit_buffer' = [i \in Walkers(config) |-> 0]
                  /\ clone_receives' = [i \in Walkers(config) |-> 0]
                  /\ root_actions' = <<>>
                  /\ root_value_sum' = 0
                  /\ root_visits' = 0
                  /\ simulation_iteration' = 0
                  /\ pc' = loop_body[1]
                  /\ runs' = runs + 1
                  /\ result' = <<>>
                  /\ sampled0' = <<>>
             ELSE /\ pc' = "failed"
                  /\ UNCHANGED <<greedy_action, reward_buffer, value_sum_buffer,
                                 visit_buffer, clone_receives, root_actions,
                                 root_value_sum, root_visits, simulation_iteration,
                                 runs, result, sampled0>>
    /\ UNCHANGED <<config, state, actions, rewards, predicted_values,
                   clone_partners, distances, virtual_rewards,
                   clone_probabilities, clone_mask, call, out>>

\* ---------------------------------------------------------------- _perturbate
\* A mutant: root_actions is refreshed by every iteration's sample.
assign_actions_always(root, sampled) == sampled

\* _assign_actions, lines 160-161: the new value of self.root_actions
assign_actions(root, sampled) == IF root = <<>> THEN sampled ELSE root

\* A mutant: the rewards are written to column 0 whatever the iteration.
perturbate_first_column ==
    /\ pc = "perturbate"
    /\ \E sampled \in [Walkers(config) -> config.action_space] :
          LET dyn == dynamics_forward(config, state, sampled)
          IN  /\ actions' = sampled
              /\ root_actions' = assign_actions(root_actions, sampled)
              /\ sampled0' = IF simulation_iteration = 0 THEN sampled ELSE sampled0
              /\ state' = dyn.state
              /\ rewards' = dyn.rewards
              /\ predicted_values' = prediction_forward(config, dyn.state)
              /\ reward_buffer' =
                    [i \in Walkers(config) |->
                        [reward_buffer[i] EXCEPT ![1] = dyn.rewards[i]]]
    /\ pc' = next_pc("perturbate", simulation_iteration, k)
    /\ simulation_iteration' = next_iteration("perturbate", simulation_iteration, k)
    /\ steps' = Append(steps, "perturbate")
    /\ UNCHANGED <<config, k, greedy_action, value_sum_buffer, visit_buffer,
                   clone_receives, clone_partners, distances, virtual_rewards,
                   clone_probabilities, clone_mask, root_value_sum, root_visits,
                   result, runs, call, out>>

\* _perturbate, lines 78-82
perturbate ==
    /\ pc = "perturbate"
    /\ \E sampled \in [Walkers(config) -> config.action_space] :
          LET dyn == dynamics_forward(config, state, sampled)
          IN  /\ actions' = sampled
              /\ root_actions' = assign_actions(root_actions, sampled)
              /\ sampled0' = IF simulation_iteration = 0 THEN sampled ELSE sampled0
              /\ state' = dyn.state
              /\ rewards' = dyn.rewards
              /\ predicted_values' = prediction_forward(config, dyn.state)
              /\ reward_buffer' =
                    [i \in Walkers(config) |->
                        [reward_buffer[i] EXCEPT ![simulation_iteration + 1] = dyn.rewards[i]]]
    /\ pc' = next_pc("perturbate", simulation_iteration, k)
    /\ simulation_iteration' = next_iteration("perturbate", simulation_iteration, k)
    /\ steps' = Append(steps, "perturbate")
    /\ UNCHANGED <<config, k, greedy_action, value_sum_buffer, visit_buffer,
                   clone_receives, clone_partners, distances, virtual_rewards,
                   clone_probabilities, clone_mask, root_value_sum, root_visits,
                   result, runs, call, out>>

\* ---------------------------------------------------- _prepare_clone_variables
\* _calculate_distances: torch.linalg.norm(state - state[clone_partners], dim=1)
calculate_distances(st, partners) ==
    tensor([i \in 1..Len(st) |->
               isqrt(FP * FP * seq_sum([j \in 1..Len(st[i]) |->
                   (st[i][j] - st[partners[i]][j]) * (st[i][j] - st[partners[i]][j])]))],
           Len(st))

\* x ** balance for a fixed-point x and a whole exponent
RECURSIVE fp_pow(_, _)
fp_pow(x, b) == IF b = 0 THEN FP ELSE (x * fp_pow(x, b - 1)) \div FP

\* _calculate_virtual_rewards: (rel_values ** balance) * rel_distances
calculate_virtual_rewards(values, dists, balance) ==
    LET rel_values == relativize_vector(values)
        rel_distances == relativize_vector(dists)
    IN  tensor([i \in 1..Len(values) |->
                   IF rel_values[i] = NaN \/ rel_distances[i] = NaN THEN NaN
                   ELSE (fp_pow(rel_values[i], balance) * rel_distances[i]) \div FP],
               Len(values))

\* a quotient by the 1e-8 of line 213 leaves the fixed-point range
Inf == 2000000000

\* line 213: (pair_vr - vr) / torch.where(vr > 0, vr, 1e-8)
calculate_clone_probabilities(vr, partners) ==
    tensor([i \in 1..Len(vr) |->
               LET pair_vr == vr[partners[i]]
               IN  IF vr[i] = NaN \/ pair_vr = NaN THEN NaN
                   ELSE IF vr[i] > 0 THEN ((pair_vr - vr[i]) * FP) \div vr[i]
                   ELSE IF pair_vr = vr[i] THEN 0
                   ELSE IF pair_vr > vr[i] THEN Inf ELSE 0 - Inf],
           Len(vr))

\* A mutant: one draw per walker (np.random.uniform(size=N)); the draws differ.
determine_clone_mask_per_walker(probabilities, r) ==
    tensor([i \in 1..Len(probabilities) |->
               /\ probabilities[i] # NaN
               /\ probabilities[i] >= (r + (i - 1) * (FP \div 2)) % FP],
           Len(probabilities))

\* line 215: self.clone_probabilities >= r
determine_clone_mask(probabilities, r) ==
    tensor([i \in 1..Len(probabilities) |->
               probabilities[i] # NaN /\ probabilities[i] >= r],
           Len(probabilities))

prepare_clone_variables ==
    /\ pc = "prepare_clone_variables"
    /\ \E partners \in [Walkers(config) -> Walkers(config)] :
          LET dists == calculate_distances(state, partners)
              vr == calculate_virtual_rewards(predicted_values, dists, config.balance)
              probabilities == calculate_clone_probabilities(vr, partners)
          IN  /\ clone_partners' = partners
              /\ distances' = dists
              /\ virtual_rewards' = vr
              /\ clone_probabilities' = probabilities
              /\ \E r \in config.uniform :
                    clone_mask' = determine_clone_mask(probabilities, r)
    /\ pc' = next_pc("prepare_clone_variables", simulation_iteration, k)
    /\ simulation_iteration' =
          next_iteration("prepare_clone_variables", simulation_iteration, k)
    /\ steps' = Append(steps, "prepare_clone_variables")
    /\ UNCHANGED <<config, k, greedy_action, state, actions, root_actions, rewards,
                   predicted_values, reward_buffer, value_sum_buffer, visit_buffer,
                   clone_receives, root_value_sum, root_visits, result, sampled0,
                   runs, call, out>>

\* ------------------------------------------------ _backpropagate_reward_buffer
\* A mutant: the last iteration is not forced, the clone mask is used throughout.
backpropagation_mask_clone_only(mask, t, kk) == mask

\* A mutant: every iteration backpropagates all walkers (the TODO of line 284).
backpropagation_mask_all(mask, t, kk) == [i \in 1..Len(mask) |-> TRUE]

\* lines 285-289: every walker on the last iteration, else the clone mask
backpropagation_mask(mask, t, kk) ==
    IF t = kk - 1 THEN [i \in 1..Len(mask) |-> TRUE] ELSE mask

\* lines 293-296, for one masked walker, from index i down to index 0
RECURSIVE discounted_return(_, _, _, _, _)
discounted_return(row, i, current, cfg, kk) ==
    IF i < 0 THEN current
    ELSE discounted_return(
             row, i - 1,
             row[i + 1] * value_scale(cfg, kk) + (current * cfg.gamma_num) \div cfg.gamma_den,
             cfg, kk)

\* A mutant: the loop also visits the current iteration, reversed(range(t + 1)).
current_value_inclusive(row, t, cfg, kk) == discounted_return(row, t, 0, cfg, kk)

\* line 292: for i in reversed(range(self.simulation_iteration))
current_value(row, t, cfg, kk) == discounted_return(row, t - 1, 0, cfg, kk)

\* lines 291-296: current_value_buffer
current_value_buffer(buffer, mask, t, cfg, kk) ==
    tensor([i \in 1..Len(buffer) |->
               IF mask[i] THEN current_value(buffer[i], t, cfg, kk) ELSE 0],
           Len(buffer))

bool_count(mask) == Cardinality({i \in 1..Len(mask) : mask[i]})

backpropagate_reward_buffer ==
    /\ pc = "backpropagate_reward_buffer"
    /\ LET mask == backpropagation_mask(clone_mask, simulation_iteration, k)
           current == current_value_buffer(reward_buffer, mask, simulation_iteration,
                                           config, k)
       IN  /\ value_sum_buffer' =
                 [i \in Walkers(config) |-> value_sum_buffer[i] + current[i]]
           /\ visit_buffer' =
                 [i \in Walkers(config) |-> visit_buffer[i] + (IF mask[i] THEN 1 ELSE 0)]
           /\ root_value_sum' = root_value_sum + seq_sum(current)
           /\ root_visits' = root_visits + bool_count(mask)
    /\ pc' = next_pc("backpropagate_reward_buffer", simulation_iteration, k)
    /\ simulation_iteration' =
          next_iteration("backpropagate_reward_buffer", simulation_iteration, k)
    /\ steps' = Append(steps, "backpropagate_reward_buffer")
    /\ UNCHANGED <<config, k, greedy_action, state, actions, root_actions, rewards,
                   predicted_values, reward_buffer, clone_receives, clone_partners,
                   distances, virtual_rewards, clone_probabilities, clone_mask,
                   result, sampled0, runs, call, out>>

\* ------------------------------------------------------------- _execute_cloning
\* A mutant: the histogram counts every walker's partner, masked or not.
clones_received_unmasked(partners, mask) ==
    [j \in 1..Len(partners) |-> Cardinality({i \in 1..Len(partners) : partners[i] = j})]

\* lines 257-262: torch.bincount(clone_partners[clone_mask]), zero beyond its length
clones_received_per_walker(partners, mask) ==
    [j \in 1..Len(partners) |->
        Cardinality({i \in 1..Len(partners) : mask[i] /\ partners[i] = j})]

\* A mutant: the visit counts are left out of the cloning.
execute_cloning_without_visits ==
    /\ pc = "execute_cloning"
    /\ LET received == clones_received_per_walker(clone_partners, clone_mask)
           incremented == [j \in Walkers(config) |-> clone_receives[j] + received[j]]
       IN  /\ state' = clone_vector(state, clone_partners, clone_mask)
           /\ actions' = clone_vector(actions, clone_partners, clone_mask)
           /\ root_actions' = clone_vector(root_actions, clone_partners, clone_mask)
           /\ reward_buffer' = clone_vector(reward_buffer, clone_partners, clone_mask)
           /\ value_sum_buffer' = clone_vector(value_sum_buffer, clone_partners, clone_mask)
           /\ clone_receives' = clone_vector(incremented, clone_partners, clone_mask)
    /\ pc' = next_pc("execute_cloning", simulation_iteration, k)
    /\ simulation_iteration' = next_iteration("execute_cloning", simulation_iteration, k)
    /\ steps' = Append(steps, "execute_cloning")
    /\ UNCHANGED <<config, k, greedy_action, rewards, predicted_values, clone_partners,
                   distances, virtual_rewards, clone_probabilities, clone_mask,
                   root_value_sum, root_visits, result, sampled0, runs, call, out,
                   visit_buffer>>

\* _execute_cloning, lines 257-271: the histogram, then the seven clonings
execute_cloning ==
    /\ pc = "execute_cloning"
    /\ LET received == clones_received_per_walker(clone_partners, clone_mask)
           incremented == [j \in Walkers(config) |-> clone_receives[j] + received[j]]
       IN  /\ state' = clone_vector(state, clone_partners, clone_mask)
           /\ actions' = clone_vector(actions, clone_partners, clone_mask)
           /\ root_actions' = clone_vector(root_actions, clone_partners, clone_mask)
           /\ reward_buffer' = clone_vector(reward_buffer, clone_partners, clone_mask)
           /\ value_sum_buffer' = clone_vector(value_sum_buffer, clone_partners, clone_mask)
           /\ visit_buffer' = clone_vector(visit_buffer, clone_partners, clone_mask)
           /\ clone_receives' = clone_vector(incremented, clone_partners, clone_mask)
    /\ pc' = next_pc("execute_cloning", simulation_iteration, k)
    /\ simulation_iteration' = next_iteration("execute_cloning", simulation_iteration, k)
    /\ steps' = Append(steps, "execute_cloning")
    /\ UNCHANGED <<config, k, greedy_action, rewards, predicted_values, clone_partners,
                   distances, virtual_rewards, clone_probabilities, clone_mask,
                   root_value_sum, root_visits, result, sampled0, runs, call, out>>

\* ------------------------------------------------------------ action selection
\* a float quotient value_sum / visit_count, kept as the pair <<sum, count>>:
\* 0/0 is NaN, x/0 is +inf or -inf
quotient_is_nan(q) == q[2] = 0 /\ q[1] = 0

quotient_greater(a, b) ==
    LET pos_inf(q) == q[2] = 0 /\ q[1] > 0
        neg_inf(q) == q[2] = 0 /\ q[1] < 0
    IN  IF pos_inf(a) THEN ~pos_inf(b)
        ELSE IF neg_inf(a) THEN FALSE
        ELSE IF pos_inf(b) THEN FALSE
        ELSE IF neg_inf(b) THEN TRUE
        ELSE a[1] * b[2] > b[1] * a[2]

\* torch.argmax over float quotients: a NaN counts as the maximum, the first
\* maximal index wins
argmax_quotients(qs) ==
    IF \E i \in 1..Len(qs) : quotient_is_nan(qs[i])
    THEN CHOOSE i \in 1..Len(qs) :
            /\ quotient_is_nan(qs[i])
            /\ \A j \in 1..(i - 1) : ~quotient_is_nan(qs[j])
    ELSE CHOOSE i \in 1..Len(qs) :
            /\ \A j \in 1..Len(qs) : ~quotient_greater(qs[j], qs[i])
            /\ \A j \in 1..(i - 1) : quotient_greater(qs[i], qs[j])

\* torch.argmax over integers
argmax_ints(xs) ==
    CHOOSE i \in 1..Len(xs) :
        /\ \A j \in 1..Len(xs) : xs[j] <= xs[i]
        /\ \A j \in 1..(i - 1) : xs[j] < xs[i]

\* _get_highest_value_action, lines 314-320
get_highest_value_action ==
    root_actions[argmax_quotients([i \in Walkers(config) |->
                                      <<value_sum_buffer[i], visit_buffer[i]>>])]

\* _get_action_with_highest_clone_receives, lines 325-326
get_action_with_highest_clone_receives == root_actions[argmax_ints(clone_receives)]

\* self.state.shape
tensor_shape(st) == IF st = <<>> THEN <<0>> ELSE <<Len(st), Len(st[1])>>

\* simulate, lines 120-147: the sanity assert, then the selected action is returned
return_action ==
    /\ pc = "return"
    /\ IF tensor_shape(state) = <<config.num_walkers, config.embedding_size>>
       THEN /\ result' = <<IF greedy_action THEN get_highest_value_action
                           ELSE get_action_with_highest_clone_receives>>
            /\ pc' = "done"
            /\ steps' = Append(steps, "select_action")
       ELSE /\ pc' = "failed"
            /\ UNCHANGED <<result, steps>>
    /\ UNCHANGED <<config, k, greedy_action, simulation_iteration, state, actions,
                   root_actions, rewards, predicted_values, reward_buffer,
                   value_sum_buffer, visit_buffer, clone_receives, clone_partners,
                   distances, virtual_rewards, clone_probabilities, clone_mask,
                   root_value_sum, root_visits, sampled0, runs, call, out>>

\* ------------------------------------------------------------- specifications
\* FMC.__init__, lines 40-44: no buffer exists yet
Constructed ==
    /\ pc = "new"
    /\ k = 0
    /\ greedy_action = TRUE
    /\ simulation_iteration = 0
    /\ state = <<>>
    /\ actions = <<>>
    /\ root_actions = <<>>
    /\ rewards = <<>>
    /\ predicted_values = <<>>
    /\ reward_buffer = <<>>
    /\ value_sum_buffer = <<>>
    /\ visit_buffer = <<>>
    /\ clone_receives = <<>>
    /\ clone_partners = <<>>
    /\ distances = <<>>
    /\ virtual_rewards = <<>>
    /\ clone_probabilities = <<>>
    /\ clone_mask = <<>>
    /\ root_value_sum = 0
    /\ root_visits = 0
    /\ result = <<>>
    /\ steps = <<>>
    /\ sampled0 = <<>>
    /\ runs = 0

Init ==
    /\ config \in Configs
    /\ Constructed
    /\ call = <<>>
    /\ out = <<>>

Next ==
    \/ set_state
    \/ simulate
    \/ perturbate
    \/ prepare_clone_variables
    \/ backpropagate_reward_buffer
    \/ execute_cloning
    \/ return_action

Spec == Init /\ [][Next]_vars

InitScenario ==
    /\ config = ScenarioConfig
    /\ Constructed
    /\ call = <<>>
    /\ out = <<>>

SpecScenario == InitScenario /\ [][Next]_vars

\* every configuration of Spec, and the longer run beside them
InitLongRun ==
    /\ config \in Configs \cup {LongRunConfig}
    /\ Constructed
    /\ call = <<>>
    /\ out = <<>>

SpecLongRun == InitLongRun /\ [][Next]_vars

\* ------------------------------------------------- the pure helpers, on their own
\* every call of _relativize_vector on a vector of 1..MaxLen entries in 0..MaxEntry
\* and of _clone_vector on a vector (entries in 0..MaxCloneEntry), partners and
\* mask of 1..MaxVector entries
relativize_calls(n) ==
    {[fn |-> "relativize_vector", vector |-> [i \in 1..n |-> FP * v[i]]] :
        v \in [1..n -> 0..MaxEntry]}

clone_calls(n) ==
    {[fn |-> "clone_vector", vector |-> v, partners |-> p, mask |-> m] :
        v \in [1..n -> 0..MaxCloneEntry], p \in [1..n -> 1..n],
        m \in [1..n -> BOOLEAN]}

call_relativize_vector ==
    /\ call # <<>>
    /\ call.fn = "relativize_vector"
    /\ out = <<>>
    /\ out' = relativize_vector(call.vector)
    /\ UNCHANGED <<config, pc, k, greedy_action, simulation_iteration, state, actions,
                   root_actions, rewards, predicted_values, reward_buffer,
                   value_sum_buffer, visit_buffer, clone_receives, clone_partners,
                   distances, virtual_rewards, clone_probabilities, clone_mask,
                   root_value_sum, root_visits, result, steps, sampled0, runs, call>>

call_clone_vector ==
    /\ call # <<>>
    /\ call.fn = "clone_vector"
    /\ out = <<>>
    /\ out' = clone_vector(call.vector, call.partners, call.mask)
    /\ UNCHANGED <<config, pc, k, greedy_action, simulation_iteration, state, actions,
                   root_actions, rewards, predicted_values, reward_buffer,
                   value_sum_buffer, visit_buffer, clone_receives, clone_partners,
                   distances, virtual_rewards, clone_probabilities, clone_mask,
                   root_value_sum, root_visits, result, steps, sampled0, runs, call>>

InitHelpers ==
    /\ config = <<>>
    /\ Constructed
    /\ \/ \E n \in 1..MaxLen : call \in relativize_calls(n)
       \/ \E n \in 1..MaxVector : call \in clone_calls(n)
    /\ out = <<>>

NextHelpers ==
    \/ call_relativize_vector
    \/ call_clone_vector

SpecHelpers == InitHelpers /\ [][NextHelpers]_vars

\* ======================================================================
\* Properties
\* ======================================================================
Range(s) == {s[i] : i \in 1..Len(s)}

is_clone_call == call # <<>> /\ call.fn = "clone_vector"

is_relativize_call == call # <<>> /\ call.fn = "relativize_vector"

\* C1: cloning yields v'[i] = v[partner[i]] where mask[i] holds and v'[i] = v[i]
\* elsewhere, every read taking the value v held before the cloning started.
C1_CloneReadsOriginalValues ==
    (is_clone_call /\ out # <<>>) =>
        /\ Len(out) = Len(call.vector)
        /\ \A i \in 1..Len(call.vector) :
              out[i] = IF call.mask[i] THEN call.vector[call.partners[i]]
                       ELSE call.vector[i]

\* C1 witness: a masked walker whose partner is an earlier masked walker that the
\* same cloning overwrites with another value.
C1_Witness ==
    /\ is_clone_call
    /\ out # <<>>
    /\ \E i \in 1..Len(call.vector) :
          /\ call.mask[i]
          /\ call.partners[i] < i
          /\ call.mask[call.partners[i]]
          /\ call.vector[call.partners[call.partners[i]]] # call.vector[call.partners[i]]
          /\ out[i] = call.vector[call.partners[i]]

\* C2: the action simulate returns is an action some walker sampled at iteration 0,
\* and root_actions never holds a value that was not sampled at iteration 0.
C2_RootActionsFromIteration0 ==
    /\ root_actions # <<>> => Range(root_actions) \subseteq Range(sampled0)
    /\ result # <<>> => result[1] \in Range(sampled0)

\* C2 witness: a finished run of two or more iterations in which cloning has
\* rearranged root_actions and later samples differ from those of iteration 0.
C2_Witness ==
    /\ pc = "done"
    /\ k >= 2
    /\ root_actions # sampled0
    /\ Range(actions) # Range(sampled0)
    /\ result[1] \in Range(sampled0)

\* the return of the claim C3: reward_buffer[i][0] + gamma * reward_buffer[i][1]
\* + ... + gamma^t * reward_buffer[i][t], in units of 1 / gamma_den^k
C3_ReturnThroughCurrent(row, t) ==
    seq_sum([j \in 1..(t + 1) |->
                row[j] * (config.gamma_num ^ (j - 1)) * (config.gamma_den ^ (k - (j - 1)))])

\* C3: backpropagation at iteration t adds, for every walker of the effective mask,
\* the discounted return over the rewards of iterations 0..t, the current one included.
C3_ReturnIncludesCurrentReward ==
    [][pc = "backpropagate_reward_buffer" =>
        \A i \in Walkers(config) :
            (simulation_iteration = k - 1 \/ clone_mask[i]) =>
                value_sum_buffer'[i] =
                    value_sum_buffer[i]
                    + C3_ReturnThroughCurrent(reward_buffer[i], simulation_iteration)]_vars

\* the case of C4: backpropagation of iteration index 2 is done, walker 0 received
\* the rewards 1, 2, 3 and no walker was masked at iterations 0 and 1 (root_visits
\* counts only the N walkers of the forced last backpropagation)
C4_Case ==
    /\ pc = "execute_cloning"
    /\ simulation_iteration = 2
    /\ k = 3
    /\ config.num_walkers = 4
    /\ config.gamma_num = 9
    /\ config.gamma_den = 10
    /\ reward_buffer[1] = <<1, 2, 3>>
    /\ root_visits = config.num_walkers

C5_CloneReceivesBookkeeping ==
    [][pc = "execute_cloning" =>
        LET chosen(j) == Cardinality({i \in Walkers(config) :
                                         clone_mask[i] /\ clone_partners[i] = j})
        IN  \A j \in Walkers(config) :
                clone_receives'[j] =
                    IF clone_mask[j]
                    THEN clone_receives[clone_partners[j]] + chosen(clone_partners[j])
                    ELSE clone_receives[j] + chosen(j)]_vars

\* C5 witness: clone execution has just run with two masked walkers sharing a
\* partner that is not masked itself, and with a masked walker beside them.
C5_Witness ==
    /\ steps # <<>>
    /\ steps[Len(steps)] = "execute_cloning"
    /\ \E j, i1, i2 \in Walkers(config) :
          /\ i1 # i2
          /\ clone_mask[i1] /\ clone_mask[i2] /\ ~clone_mask[j]
          /\ clone_partners[i1] = j /\ clone_partners[i2] = j
          /\ clone_receives[j] = 2
          /\ clone_receives[i1] = 2

\* C6: a call simulate(k) with k <= 0 fails before it creates or resets a buffer and
\* before an oracle or the sampler runs: no step is executed, nothing is returned.
C6_NonPositiveKFailsFirst ==
    [][(pc \in {"ready", "done", "failed"} /\ k' <= 0) =>
        /\ pc' = "failed"
        /\ steps' = <<>>
        /\ UNCHANGED <<reward_buffer, value_sum_buffer, visit_buffer, clone_receives,
                       root_actions, root_value_sum, root_visits, state, actions,
                       rewards, predicted_values, result, simulation_iteration>>]_vars

\* C6 witness: a call with k <= 0 has failed after a completed run, whose buffers
\* and result are still in place.
C6_Witness ==
    /\ pc = "failed"
    /\ k <= 0
    /\ runs = 1
    /\ steps = <<>>
    /\ result # <<>>
    /\ Len(visit_buffer) = config.num_walkers
    /\ \E i \in Walkers(config) : visit_buffer[i] > 0

\* the n-th step of a run of k iterations
C7_Step(n) ==
    IF n > 4 * k THEN "select_action"
    ELSE <<"perturbate", "prepare_clone_variables", "backpropagate_reward_buffer",
           "execute_cloning">>[((n - 1) % 4) + 1]

\* C7: a run executes, k times over, perturbation, cloning decision, backpropagation
\* and clone execution in this order, then selects the action once; the step that
\* runs next is the one that follows the steps executed so far.
C7_StepsInOrder ==
    /\ \A n \in 1..Len(steps) : steps[n] = C7_Step(n)
    /\ pc = "done" => Len(steps) = 4 * k + 1
    /\ pc = "return" => Len(steps) = 4 * k
    /\ pc \in {"perturbate", "prepare_clone_variables", "backpropagate_reward_buffer",
               "execute_cloning"} =>
          /\ simulation_iteration \in 0..(k - 1)
          /\ Len(steps) \div 4 = simulation_iteration
          /\ pc = C7_Step(Len(steps) + 1)

\* C7 witness: a completed run of more than one iteration.
C7_Witness == pc = "done" /\ k >= 2 /\ Len(steps) = 4 * k + 1

\* C8: the walker state has shape (N, d) from set_state on, after every perturbation
\* and every clone execution, and the sanity assertion of simulate never fails.
C8_StateShape ==
    /\ pc # "new" =>
          /\ Len(state) = config.num_walkers
          /\ \A i \in 1..Len(state) : Len(state[i]) = config.embedding_size
    /\ pc = "failed" => k <= 0

\* C8 witness: a completed run with several walkers and two coordinates in which
\* the last clone execution copied a state onto another walker.
C8_Witness ==
    /\ pc = "done"
    /\ config.num_walkers >= 2
    /\ config.embedding_size = 2
    /\ \E i \in Walkers(config) :
          clone_mask[i] /\ clone_partners[i] # i /\ state[i] = state[clone_partners[i]]
    /\ \E i, j \in Walkers(config) : state[i] # state[j]

\* C10: every entry of a relativized vector is strictly positive, for vectors of
\* every length from 1 on.
C10_RelativizedPositive ==
    (is_relativize_call /\ out # <<>>) =>
        \A i \in 1..Len(out) : out[i] # NaN /\ out[i] > 0

\* the run is over: the loop of lines 114-118 has ended, the selection reads the buffers
C11_AtEnd == pc \in {"return", "done"}

\* C11 as stated, for the walker it describes: a walker that no iteration's clone mask
\* selected (no walker was selected before the last iteration, this one not in the
\* last either, so nothing was cloned onto it) reaches the end with visit_count = 0.
C11_UnmaskedWalkerEndsUnvisited ==
    C11_AtEnd =>
        \A i \in Walkers(config) :
            (root_visits = config.num_walkers /\ ~clone_mask[i]) => visit_buffer[i] = 0

\* C11 amended: at the end of every run every walker has visit_count >= 1 (the last
\* iteration backpropagates all walkers, cloning copies counts that are >= 1), so no
\* average value_sum / visit_count is 0/0 when the greedy policy reads it.
C11_EveryWalkerVisitedAtEnd ==
    C11_AtEnd =>
        \A i \in Walkers(config) :
            /\ visit_buffer[i] >= 1
            /\ ~quotient_is_nan(<<value_sum_buffer[i], visit_buffer[i]>>)

\* C11 witness: a greedy run of several iterations has returned; one walker was never
\* selected by a clone mask and holds the single visit of the last iteration, another
\* was cloned away in the last iteration and holds its partner's count.
C11_Witness ==
    /\ pc = "done"
    /\ greedy_action
    /\ k >= 2
    /\ root_visits = config.num_walkers
    /\ \E i, j \in Walkers(config) :
          /\ ~clone_mask[i] /\ visit_buffer[i] = 1
          /\ clone_mask[j] /\ clone_partners[j] # j /\ visit_buffer[j] = 1

\* the seven per-walker entries of walker i, clone_receives given separately
C12_Entries(st, acts, roots, buffer, sums, visits, receives, i) ==
    <<st[i], acts[i], roots[i], buffer[i], sums[i], visits[i], receives[i]>>

\* C12: clone execution rewrites state, action, root_action, the reward_buffer row,
\* value_sum, visit_count and clone_receives under one mask and one partner vector,
\* as one step: a masked walker ends with the seven entries its partner held before
\* any vector was cloned (clone_receives after the histogram increment), an unmasked
\* walker keeps its seven entries.
C12_SevenVectorsClonedTogether ==
    [][pc = "execute_cloning" =>
        LET incremented ==
                [j \in Walkers(config) |->
                    clone_receives[j]
                    + Cardinality({i \in Walkers(config) :
                                      clone_mask[i] /\ clone_partners[i] = j})]
            before(i) == C12_Entries(state, actions, root_actions, reward_buffer,
                                     value_sum_buffer, visit_buffer, incremented, i)
            after(i) == C12_Entries(state', actions', root_actions', reward_buffer',
                                    value_sum_buffer', visit_buffer', clone_receives', i)
        IN  /\ \A i \in Walkers(config) :
                  after(i) = IF clone_mask[i] THEN before(clone_partners[i]) ELSE before(i)
            /\ UNCHANGED <<clone_mask, clone_partners>>]_vars

\* C12 witness: clone execution has just run on a chain: walker i was cloned onto by
\* walker j, which was itself overwritten in the same step, and i holds what j held
\* before (a state, a reward history and a visit count that j no longer holds).
C12_Witness ==
    /\ steps # <<>>
    /\ steps[Len(steps)] = "execute_cloning"
    /\ \E i, j \in Walkers(config) :
          /\ i # j
          /\ clone_mask[i] /\ clone_partners[i] = j
          /\ clone_mask[j] /\ clone_partners[j] # j
          /\ state[i] # state[j]
          /\ reward_buffer[i] # reward_buffer[j]
          /\ visit_buffer[i] # visit_buffer[j]

\* the effective mask of C13 at the current iteration
C13_Effective(i) == simulation_iteration = k - 1 \/ clone_mask[i]

\* C13: backpropagation at iteration t uses all walkers when t = k-1 and the clone
\* mask otherwise; it adds exactly 1 to visit_count of every walker of that mask and
\* the size of the mask to root_visits, and leaves value_sum, visit_count and the
\* reward_buffer row of every walker outside the mask as they were.
C13_BackpropagationFrame ==
    [][pc = "backpropagate_reward_buffer" =>
        /\ \A i \in Walkers(config) :
              IF C13_Effective(i)
              THEN visit_buffer'[i] = visit_buffer[i] + 1
              ELSE /\ visit_buffer'[i] = visit_buffer[i]
                   /\ value_sum_buffer'[i] = value_sum_buffer[i]
                   /\ reward_buffer'[i] = reward_buffer[i]
        /\ root_visits' =
              root_visits + Cardinality({i \in Walkers(config) : C13_Effective(i)})]_vars

\* C13 witness: backpropagation has just run at an iteration t >= 1 before the last
\* with one walker in the clone mask (visited, with a positive value sum) and one
\* outside it (not visited, its rewards still in its row).
C13_Witness ==
    /\ pc = "execute_cloning"
    /\ simulation_iteration >= 1
    /\ simulation_iteration < k - 1
    /\ \E i, j \in Walkers(config) :
          /\ clone_mask[i] /\ visit_buffer[i] >= 1 /\ value_sum_buffer[i] > 0
          /\ ~clone_mask[j] /\ visit_buffer[j] = 0 /\ value_sum_buffer[j] = 0
          /\ reward_buffer[j][1] > 0
    /\ root_visits >= 1
    /\ root_visits < config.num_walkers * (simulation_iteration + 1)

\* the clone decision of the current iteration has been taken
C14_Decided == clone_mask # <<>>

C15_InRun ==
    pc \in {"perturbate", "prepare_clone_variables", "backpropagate_reward_buffer",
            "execute_cloning"}

\* the cells of reward_buffer that the step changes
C15_Changed ==
    {c \in Walkers(config) \X (1..k) : reward_buffer'[c[1]][c[2]] # reward_buffer[c[1]][c[2]]}

\* C15 as stated: a cell reward_buffer[i][t] changes only in the perturbation step
\* of iteration t; no other step of any iteration changes it.
C15_CellWrittenOnce ==
    [][C15_InRun =>
        \A c \in C15_Changed :
            pc = "perturbate" /\ c[2] = simulation_iteration + 1]_vars

\* C15 amended: a cell reward_buffer[i][t] is written by the perturbation step of
\* iteration t, to the reward of walker i; afterwards only clone execution changes it,
\* for a walker i of the clone mask, to the cell of its partner in the same column.
C15_CellWrittenThenCloned ==
    [][C15_InRun =>
        /\ \A c \in C15_Changed :
              \/ pc = "perturbate" /\ c[2] = simulation_iteration + 1
              \/ /\ pc = "execute_cloning"
                 /\ clone_mask[c[1]]
                 /\ reward_buffer'[c[1]][c[2]] = reward_buffer[clone_partners[c[1]]][c[2]]
        /\ pc = "perturbate" =>
              \A i \in Walkers(config) :
                  reward_buffer'[i][simulation_iteration + 1] = rewards'[i]]_vars

\* C15 witness: clone execution has just replaced the reward of a masked walker in
\* the column of the iteration that ends: the cell holds the reward its partner
\* received, not the one the walker received itself.
C15_Witness ==
    /\ steps # <<>>
    /\ steps[Len(steps)] = "execute_cloning"
    /\ \E i \in Walkers(config) :
          /\ clone_mask[i]
          /\ reward_buffer[i][Len(steps) \div 4] # rewards[i]
          /\ reward_buffer[i][Len(steps) \div 4] = rewards[clone_partners[i]]

====
